---------------------------- MODULE Spec2Model ----------------------------
(***************************************************************************)
(* FireO: the Model class (src/src/fireo/models/model.py) and the key      *)
(* helpers it uses (src/src/fireo/utils/utils.py).                         *)
(*                                                                         *)
(* Representation of Python values.  A str is a sequence of atoms: the     *)
(* atom "/" is the separator character, every other atom is a non-empty    *)
(* run of characters holding no "/".  The atom "@temp_doc_id" is the       *)
(* placeholder text; no other atom holds it as a substring.  None is the   *)
(* one-atom sequence <<"None">>, an atom that occurs in no str.  A dict is *)
(* a function from its keys to its values.                                 *)
(***************************************************************************)
EXTENDS Naturals, Sequences, FiniteSets

\* ------------------------------------------------------------------ bounds
\* operations performed on the instance in one run of Spec
MaxOps == 3
\* operations performed on the two instances in one run of SpecShared
MaxSharedOps == 2
\* the longest list of scalars among the values given to remove_none_field
MaxListLen == 2
\* how often remove_none_field is applied, the later times to its own result
MaxApplications == 2

\* --------------------------------------------------------- Python values
None == <<"None">>

TempDocId == "@temp_doc_id"

Str(a) == <<a>>

\* bool(s) of a str or None: non-empty and not None
Truthy(s) == s # None /\ s # <<>>

\* `'@temp_doc_id' in s` for a str s
HasPlaceholder(s) == \E n \in 1..Len(s) : s[n] = TempDocId

\* s.split('/'): the list of segments, [''] for the empty str
RECURSIVE SplitFrom(_, _, _)
SplitFrom(s, n, cur) ==
    IF n > Len(s) THEN <<cur>>
    ELSE IF s[n] = "/" THEN <<cur>> \o SplitFrom(s, n + 1, <<>>)
    ELSE SplitFrom(s, n + 1, Append(cur, s[n]))

Split(s) == SplitFrom(s, 1, <<>>)

\* '/'.join(parts): '' for the empty list
RECURSIVE Join(_)
Join(parts) ==
    IF Len(parts) = 0 THEN <<>>
    ELSE IF Len(parts) = 1 THEN parts[1]
    ELSE parts[1] \o <<"/">> \o Join(Tail(parts))

\* list[:-k]
DropLast(list, k) == SubSeq(list, 1, IF Len(list) > k THEN Len(list) - k ELSE 0)

\* ------------------------------------------------------- utils.py helpers
collection_path(k) == Join(DropLast(Split(k), 1))

get_parent(k) == collection_path(k)

\* a parent document that drops the id only: the collection path
get_parent_doc_DropOne(k) == Join(DropLast(Split(k), 1))

get_parent_doc(k) == Join(DropLast(Split(k), 2))

\* an id taken from the front of the key
get_id_First(k) == IF k = None THEN None ELSE Split(k)[1]

\* key.split('/')[-1]; None has no split: AttributeError, caught, None
get_id(k) == IF k = None THEN None ELSE Split(k)[Len(Split(k))]

\* Values handed to remove_none_field, tagged with their Python type: None,
\* an int, a dict (its items in insertion order) and a list.
Null == [t |-> "none"]

PyInt(n) == [t |-> "int", v |-> n]

PyDict(items) == [t |-> "dict", items |-> items]

PyList(elems) == [t |-> "list", elems |-> elems]

\* a remove_none_field that treats a list as a scalar
RECURSIVE remove_none_field_NoLists(_)
RECURSIVE RemoveItems_NoLists(_)
RemoveItems_NoLists(items) ==
    IF Len(items) = 0 THEN <<>>
    ELSE LET k == items[1][1]
             v == items[1][2]
         IN  IF v.t = "none" THEN RemoveItems_NoLists(Tail(items))
             ELSE << <<k, remove_none_field_NoLists(v)>> >>
                  \o RemoveItems_NoLists(Tail(items))

remove_none_field_NoLists(values) ==
    IF values.t # "dict" THEN values
    ELSE PyDict(RemoveItems_NoLists(values.items))

\* utils.remove_none_field; RemoveItems is its loop over values.items()
RECURSIVE remove_none_field(_)
RECURSIVE RemoveItems(_)
RemoveItems(items) ==
    IF Len(items) = 0 THEN <<>>
    ELSE LET k == items[1][1]
             v == items[1][2]
         IN  IF v.t = "none" THEN RemoveItems(Tail(items))
             ELSE << <<k, IF v.t \in {"dict", "list"}
                          THEN remove_none_field(v) ELSE v>> >>
                  \o RemoveItems(Tail(items))

remove_none_field(values) ==
    IF values.t = "list"
    THEN PyList([n \in 1..Len(values.elems) |-> remove_none_field(values.elems[n])])
    ELSE IF values.t # "dict" THEN values
    ELSE PyDict(RemoveItems(values.items))

\* ------------------------------------------------- the model class (meta)
\* The declared fields of the model class, in registry order
\* (_meta.field_list): a text field stored under a remapped column, a map
\* field and a nested-model field.
field_list == <<"x", "m", "n">>

FieldNames == {field_list[k] : k \in 1..Len(field_list)}

MapFields == {"m"}

NestedModelFields == {"n"}

db_column_name(f) == IF f = "x" THEN "x_col" ELSE f

\* _meta.get_field_by_column_name(k): the field name, or "" for no field
get_field_by_column_name(k) ==
    IF \E f \in FieldNames : db_column_name(f) = k
    THEN CHOOSE f \in FieldNames : db_column_name(f) = k
    ELSE ""

\* the attribute a declared IDField is bound to, and the model's collection
IdFieldName == "user_id"

CollectionName == <<"user">>

\* A value no field descriptor can coerce (a value of the wrong type).
Bad == <<"<bad>">>

\* nested model instances and the storage dicts they convert to and from
EmptyNested == <<"Nested()">>

FilledNested == <<"Nested(z=1)">>

EmptyNestedDict == <<"{}">>

FilledNestedDict == <<"{z:1}">>

MapValue == <<"{k:1}">>

IsDict(v) == v \in {EmptyNestedDict, FilledNestedDict, MapValue}

\* f.nested_model() and f.nested_model.from_dict(d)
nested_model == EmptyNested

nested_from_dict(d) == IF d = FilledNestedDict THEN FilledNested ELSE EmptyNested

\* field.get_value(value, ...): [ok, value]; a descriptor rejects Bad, a
\* nested-model field returns the nested instance's storage dict
field_get_value(f, v, ignore_required, ignore_default, changed_only) ==
    IF v = Bad THEN [ok |-> FALSE, value |-> None]
    ELSE IF f \in NestedModelFields /\ v = EmptyNested
        THEN [ok |-> TRUE, value |-> EmptyNestedDict]
    ELSE IF f \in NestedModelFields /\ v = FilledNested
        THEN [ok |-> TRUE, value |-> FilledNestedDict]
    ELSE [ok |-> TRUE, value |-> v]

\* field.field_value(stored, instance)
field_field_value(f, v) ==
    IF f \in NestedModelFields /\ IsDict(v) THEN nested_from_dict(v) ELSE v

\* IDField().get_value(value)
IDField_get_value(v) == v

\* -------------------------------------------------------------- Model
\* the class attributes every instance starts from (model.py 95-124)
ClassAttributes ==
    [id |-> None, user_id |-> None, _key |-> None, parent |-> <<>>,
     collection_name |-> CollectionName, _field_changed |-> <<>>,
     _update_doc |-> None, x |-> None, m |-> None, n |-> None]

\* __setattr__ that records a field once (a set-like log)
setattr_Dedup(o, key, value) ==
    LET tracked == IF key \in FieldNames
                      /\ ~(\E n \in 1..Len(o._field_changed) : o._field_changed[n] = key)
                   THEN [o EXCEPT !._field_changed = Append(@, key)]
                   ELSE o
    IN  [tracked EXCEPT ![key] = value]

\* __setattr__ that assigns the log instead of appending to it
setattr_Overwrite(o, key, value) ==
    LET tracked == IF key \in FieldNames
                   THEN [o EXCEPT !._field_changed = <<key>>]
                   ELSE o
    IN  [tracked EXCEPT ![key] = value]

\* Model.__setattr__
setattr(o, key, value) ==
    LET tracked == IF key \in FieldNames
                   THEN [o EXCEPT !._field_changed = Append(@, key)]
                   ELSE o
    IN  [tracked EXCEPT ![key] = value]

\* a hydration write that goes through the tracked assignment
_set_orig_attr_Tracked(o, key, value) == setattr(o, key, value)

\* Model._set_orig_attr
_set_orig_attr(o, key, value) == [o EXCEPT ![key] = value]

\* Model.__init__(**kwargs), kwargs a list of <<name, value>>
RECURSIVE SetKwargs(_, _)
SetKwargs(o, kwargs) ==
    IF Len(kwargs) = 0 THEN o
    ELSE SetKwargs(setattr(o, kwargs[1][1], kwargs[1][2]), Tail(kwargs))

\* the nested-model loop of Model.__init__ (model.py 139-150), from field k on
RECURSIVE InitNested(_, _, _)
InitNested(o, kwargs, k) ==
    IF k > Len(field_list) THEN o
    ELSE LET f == field_list[k]
             given == {n \in 1..Len(kwargs) : kwargs[n][1] = f}
         IN  IF f \notin NestedModelFields THEN InitNested(o, kwargs, k + 1)
             ELSE IF given = {}
                 THEN InitNested(setattr(o, f, nested_model), kwargs, k + 1)
             ELSE LET v == kwargs[CHOOSE n \in given : TRUE][2]
                  IN  IF IsDict(v)
                      THEN InitNested(setattr(o, f, nested_from_dict(v)), kwargs, k + 1)
                      ELSE InitNested(o, kwargs, k + 1)

\* a constructor that leaves every nested-model field as the kwargs gave it
Model_NoNested(kwargs) ==
    SetKwargs([ClassAttributes EXCEPT !._field_changed = <<>>], kwargs)

Model(kwargs) ==
    InitNested(SetKwargs([ClassAttributes EXCEPT !._field_changed = <<>>], kwargs),
               kwargs, 1)

\* an id getter that falls back to the bare id attribute
_id_BareFallback(o, mt) ==
    IF mt.id = None THEN o.id
    ELSE IDField_get_value(o[mt.id[1]])

\* Model._id (getter); mt is the class's _meta
_id(o, mt) ==
    IF mt.id = None THEN None
    ELSE IDField_get_value(o[mt.id[1]])

\* the three segments joined with the leading '/' kept
JoinKey_NoStrip(parent, collection, doc_id) ==
    Join(<<parent, collection, doc_id>>)

\* the three segments joined, one leading '/' dropped (model.py 315-321, 325-329)
JoinKey(parent, collection, doc_id) ==
    LET k == Join(<<parent, collection, doc_id>>)
    IN  IF k[1] = "/" THEN Tail(k) ELSE k

\* Model._set_key
_set_key(o, doc_id) ==
    setattr(o, "_key", JoinKey(o.parent, o.collection_name, doc_id))

\* Model._id (setter)
_id_setter(o, mt, doc_id) ==
    LET id == IF mt.id # None THEN mt.id[1] ELSE "id"
        o1 == setattr(o, id, doc_id)
    IN  IF Truthy(doc_id) THEN _set_key(o1, doc_id) ELSE o1

\* a key property that ignores the fixed key and always recomputes
key_Recomputed(o, mt) ==
    IF _id(o, mt) = None
    THEN JoinKey(o.parent, o.collection_name, Str(TempDocId))
    ELSE JoinKey(o.parent, o.collection_name, _id(o, mt))

\* Model.key; joining a None id raises TypeError and the placeholder is used
key(o, mt) ==
    IF Truthy(o._key) THEN o._key
    ELSE IF _id(o, mt) = None
        THEN JoinKey(o.parent, o.collection_name, Str(TempDocId))
    ELSE JoinKey(o.parent, o.collection_name, _id(o, mt))

\* dict[k] = v
DictSet(d, k, v) == [c \in DOMAIN d \cup {k} |-> IF c = k THEN v ELSE d[c]]

EmptyDict == [c \in {} |-> None]

\* a to_db_dict loop that drops a field whose coercion fails and goes on
RECURSIVE ToDbDictFrom_SkipFailed(_, _, _, _, _, _, _)
ToDbDictFrom_SkipFailed(o, mt, ignore_required, ignore_default, changed_only, k, result) ==
    IF k > Len(field_list)
    THEN [raised |-> "", path |-> "", dict |-> result]
    ELSE LET f == field_list[k]
             got == field_get_value(f, o[f], ignore_required, ignore_default,
                                    changed_only)
             skip == \/ changed_only
                        /\ ~(\E n \in 1..Len(o._field_changed) :
                                o._field_changed[n] = f)
                     \/ ~got.ok
                     \/ got.value = None /\ mt.ignore_none_field
         IN  ToDbDictFrom_SkipFailed(
                 o, mt, ignore_required, ignore_default, changed_only, k + 1,
                 IF skip THEN result
                 ELSE DictSet(result, db_column_name(f), got.value))

\* Model.to_db_dict: the loop from field k on, result the dict built so far.
\* Returns [raised, path, dict]: the first field whose coercion fails ends
\* the call with ModelSerializingWrappedError(self, (field.name,), error).
RECURSIVE ToDbDictFrom(_, _, _, _, _, _, _)
ToDbDictFrom(o, mt, ignore_required, ignore_default, changed_only, k, result) ==
    IF k > Len(field_list)
    THEN [raised |-> "", path |-> "", dict |-> result]
    ELSE LET f == field_list[k]
             got == field_get_value(f, o[f], ignore_required, ignore_default,
                                    changed_only)
         IN  IF changed_only
                /\ ~(\E n \in 1..Len(o._field_changed) : o._field_changed[n] = f)
             THEN ToDbDictFrom(o, mt, ignore_required, ignore_default,
                               changed_only, k + 1, result)
             ELSE IF ~got.ok
             THEN [raised |-> "ModelSerializingWrappedError", path |-> f,
                   dict |-> EmptyDict]
             ELSE IF got.value # None \/ ~mt.ignore_none_field
             THEN ToDbDictFrom(o, mt, ignore_required, ignore_default,
                               changed_only, k + 1,
                               DictSet(result, db_column_name(f), got.value))
             ELSE ToDbDictFrom(o, mt, ignore_required, ignore_default,
                               changed_only, k + 1, result)

to_db_dict(o, mt, ignore_required, ignore_default, changed_only) ==
    ToDbDictFrom(o, mt, ignore_required, ignore_default, changed_only, 1,
                 EmptyDict)

\* Model.to_dict
to_dict(o, mt) ==
    LET db == to_db_dict(o, mt, FALSE, FALSE, FALSE)
        id == IF mt.id # None THEN mt.id[1] ELSE "id"
    IN  IF db.raised # "" THEN db
        ELSE [db EXCEPT !.dict =
                 DictSet(DictSet(db.dict, id, get_id(key(o, mt))),
                         "key", key(o, mt))]

\* a hydration that looks the keys up among the field names, not the columns
RECURSIVE populate_ByFieldName(_, _)
populate_ByFieldName(o, doc_dict) ==
    IF Len(doc_dict) = 0 THEN o
    ELSE LET k == doc_dict[1][1]
             v == doc_dict[1][2]
         IN  IF k \notin FieldNames
             THEN populate_ByFieldName(o, Tail(doc_dict))
             ELSE populate_ByFieldName(
                      _set_orig_attr(o, k, field_field_value(k, v)),
                      Tail(doc_dict))

\* a hydration that stops at the first key no field is stored under
RECURSIVE populate_StopAtUnknown(_, _)
populate_StopAtUnknown(o, doc_dict) ==
    IF Len(doc_dict) = 0 THEN o
    ELSE LET k == doc_dict[1][1]
             v == doc_dict[1][2]
             field == get_field_by_column_name(k)
         IN  IF field = "" THEN o
             ELSE populate_StopAtUnknown(
                      _set_orig_attr(o, field, field_field_value(field, v)),
                      Tail(doc_dict))

\* Model.populate_from_doc_dict, doc_dict a list of <<column, value>>
RECURSIVE populate_from_doc_dict(_, _)
populate_from_doc_dict(o, doc_dict) ==
    IF Len(doc_dict) = 0 THEN o
    ELSE LET k == doc_dict[1][1]
             v == doc_dict[1][2]
             field == get_field_by_column_name(k)
         IN  IF field = ""
             THEN populate_from_doc_dict(o, Tail(doc_dict))
             ELSE populate_from_doc_dict(
                      _set_orig_attr(o, field, field_field_value(field, v)),
                      Tail(doc_dict))

\* Model.from_dict (classmethod): None for None, else a new instance hydrated
from_dict(model_dict) ==
    IF model_dict = None THEN None
    ELSE populate_from_doc_dict(Model(<<>>), model_dict)

\* Model._get_fields
_get_fields(o, changed_only) ==
    LET keep == {f \in FieldNames :
                    \/ ~changed_only
                    \/ \E n \in 1..Len(o._field_changed) : o._field_changed[n] = f
                    \/ f \in MapFields /\ o[f] # None}
    IN  [f \in keep |-> o[f]]

\* An id the store generates for a document saved without one.
GeneratedId == <<"xJuythTsfLs">>

\* Manager.create(instance, ..., **fields): the document is stored under the
\* instance's id, or a generated one, which is attached through the id setter
Manager_create(o, mt, fields) ==
    _id_setter(o, mt, IF Truthy(_id(o, mt)) THEN _id(o, mt) ELSE GeneratedId)

\* Manager._update(instance, ..., **updated_fields): returns the instance
Manager_update(o, mt, fields) == o

\* Model.save(merge=...): [o, fields]; upsert is save(merge=True)
save(o, mt, merge) ==
    LET fields == _get_fields(o, merge)
    IN  [o |-> Manager_create(o, mt, fields), fields |-> fields]

upsert(o, mt) == save(o, mt, TRUE)

\* the InvalidKey test reading the stored key instead of the key property
InvalidKeyToUpdate_StoredKey(o, mt) ==
    o._update_doc = None /\ HasPlaceholder(o._key)

\* the test that ends update with InvalidKey (model.py 444)
InvalidKeyToUpdate(o, mt) ==
    o._update_doc = None /\ HasPlaceholder(key(o, mt))

\* Model.update(key=k): [o, meta, raised, called, fields]
update(o, mt, k) ==
    LET o1 == IF Truthy(k) THEN setattr(o, "_update_doc", k) ELSE o
        resolves == o1._update_doc # None /\ ~HasPlaceholder(o1._update_doc)
        o2 == setattr(o1, "parent", get_parent_doc(o1._update_doc))
        o3 == _id_setter(o2, mt, get_id(o1._update_doc))
        mt3 == IF _id(o3, mt) = None /\ Truthy(o3.id)
               THEN [mt EXCEPT !.id = Str("id")]
               ELSE mt
        o4 == IF resolves THEN o3 ELSE o1
        mt4 == IF resolves THEN mt3 ELSE mt
        all == _get_fields(o4, FALSE)
        updated_fields ==
            [f \in {g \in DOMAIN all :
                       \E n \in 1..Len(o4._field_changed) : o4._field_changed[n] = g}
               |-> all[f]]
    IN  IF ~resolves /\ InvalidKeyToUpdate(o1, mt)
        THEN [o |-> o1, meta |-> mt, raised |-> "InvalidKey", called |-> FALSE,
              fields |-> EmptyDict]
        ELSE [o |-> Manager_update(o4, mt4, updated_fields), meta |-> mt4,
              raised |-> "", called |-> TRUE, fields |-> updated_fields]

\* ------------------------------------------------------------ the inputs
U1 == <<"u1">>

Key1 == <<"org", "/", "acme", "/", "user", "/", "u1">>

Key2 == <<"team", "/", "u2">>

PlaceholderKey == <<"user", "/", TempDocId>>

\* constructor keyword arguments
KwargsChoices ==
    {<<>>, << <<"x", <<"a">> >> >>, << <<"n", FilledNestedDict>> >>,
     << <<"n", None>> >>}

\* attribute assignments instance.name = value
Assignments ==
    {<<"x", <<"a">> >>, <<"x", None>>, <<"x", Bad>>, <<"m", MapValue>>,
     <<"m", Bad>>,
     <<"n", FilledNested>>,
     <<"parent", <<"/">> >>, <<"parent", <<"org", "/", "acme">> >>,
     <<"collection_name", <<"team">> >>,
     <<"id", U1>>, <<IdFieldName, U1>>,
     <<"_key", <<"user", "/", "u2">> >>, <<"_update_doc", PlaceholderKey>>}

\* ids handed to the id setter
DocIds == {None, <<>>, U1}

\* documents read from the store
DocDicts ==
    {<< <<"x_col", <<"b">> >>, <<"zzz", <<"q">> >>, <<"m", MapValue>> >>,
     << <<"n", FilledNestedDict>> >>}

\* dict.items() of a dictionary to_db_dict built: its <<column, value>>
\* pairs in insertion order, the registry order of the fields
RECURSIVE DictItemsFrom(_, _)
DictItemsFrom(d, k) ==
    IF k > Len(field_list) THEN <<>>
    ELSE IF db_column_name(field_list[k]) \in DOMAIN d
        THEN << <<db_column_name(field_list[k]), d[db_column_name(field_list[k])]>> >>
             \o DictItemsFrom(d, k + 1)
    ELSE DictItemsFrom(d, k + 1)

DictItems(d) == DictItemsFrom(d, 1)

\* the key argument of update
UpdateKeys == {None, <<>>, PlaceholderKey, Key1, Key2}

\* ---------------------------------------------------------------- state
VARIABLES
    meta,   \* the model class's _meta: id (None or the id field's name) and
            \* ignore_none_field, shared by every instance of the class
    inst,   \* the live instances, by name: each one's attributes
    ret,    \* the last operation: what was called and what came of it
    ops     \* operations performed so far

vars == <<meta, inst, ret, ops>>

NoCall ==
    [op |-> "", i |-> "", name |-> "", arg |-> None, flag |-> FALSE,
     doc |-> <<>>, raised |-> "", path |-> "", out |-> EmptyDict,
     manager |-> "", fields |-> EmptyDict]

Metas == {[id |-> d, ignore_none_field |-> b] :
             d \in {None, Str(IdFieldName)}, b \in BOOLEAN}

\* A = Model(**kw)
Init ==
    \E kw \in KwargsChoices :
        /\ meta \in Metas
        /\ inst = [i \in {"A"} |-> Model(kw)]
        /\ ret = [NoCall EXCEPT !.op = "__init__", !.doc = kw]
        /\ ops = 0

\* A = Model(); B = Model()
InitShared ==
    /\ meta \in Metas
    /\ inst = [i \in {"A", "B"} |-> Model(<<>>)]
    /\ ret = [NoCall EXCEPT !.op = "__init__"]
    /\ ops = 0

\* A = Model.from_dict(doc)
InitFromDict ==
    \E doc \in DocDicts :
        /\ meta \in Metas
        /\ inst = [i \in {"A"} |-> from_dict(doc)]
        /\ ret = [NoCall EXCEPT !.op = "from_dict", !.doc = doc]
        /\ ops = 0

Budget == IF DOMAIN inst = {"A"} THEN MaxOps ELSE MaxSharedOps

Step == ops < Budget /\ ops' = ops + 1

\* instance.name = value
SetAttr ==
    \E i \in DOMAIN inst, c \in Assignments :
        /\ Step
        /\ inst' = [inst EXCEPT ![i] = setattr(@, c[1], c[2])]
        /\ ret' = [NoCall EXCEPT !.op = "setattr", !.i = i, !.name = c[1],
                                 !.arg = c[2]]
        /\ UNCHANGED meta

\* instance._id = doc_id
SetId ==
    \E i \in DOMAIN inst, d \in DocIds :
        /\ Step
        /\ inst' = [inst EXCEPT ![i] = _id_setter(@, meta, d)]
        /\ ret' = [NoCall EXCEPT !.op = "_id", !.i = i, !.arg = d]
        /\ UNCHANGED meta

\* the document the last to_db_dict() returned, read back from the store
StoredDocs ==
    IF ret.op = "to_db_dict" /\ ret.raised = "" THEN {DictItems(ret.out)} ELSE {}

\* instance.populate_from_doc_dict(doc)
PopulateFromDocDict ==
    \E i \in DOMAIN inst, doc \in DocDicts \cup StoredDocs :
        /\ Step
        /\ inst' = [inst EXCEPT ![i] = populate_from_doc_dict(@, doc)]
        /\ ret' = [NoCall EXCEPT !.op = "populate_from_doc_dict", !.i = i,
                                 !.doc = doc]
        /\ UNCHANGED meta

\* instance.to_dict()
ToDict ==
    \E i \in DOMAIN inst :
        LET r == to_dict(inst[i], meta)
        IN  /\ Step
            /\ ret' = [NoCall EXCEPT !.op = "to_dict", !.i = i,
                                     !.raised = r.raised, !.path = r.path,
                                     !.out = r.dict]
            /\ UNCHANGED <<meta, inst>>

\* instance.to_db_dict(changed_only=flag)
ToDbDict ==
    \E i \in DOMAIN inst, changed_only \in BOOLEAN :
        LET r == to_db_dict(inst[i], meta, FALSE, FALSE, changed_only)
        IN  /\ Step
            /\ ret' = [NoCall EXCEPT !.op = "to_db_dict", !.i = i,
                                     !.flag = changed_only,
                                     !.raised = r.raised, !.path = r.path,
                                     !.out = r.dict]
            /\ UNCHANGED <<meta, inst>>

\* instance.save()
Save ==
    \E i \in DOMAIN inst :
        LET r == save(inst[i], meta, FALSE)
        IN  /\ Step
            /\ inst' = [inst EXCEPT ![i] = r.o]
            /\ ret' = [NoCall EXCEPT !.op = "save", !.i = i,
                                     !.manager = "create", !.fields = r.fields]
            /\ UNCHANGED meta

\* instance.upsert()
Upsert ==
    \E i \in DOMAIN inst :
        LET r == upsert(inst[i], meta)
        IN  /\ Step
            /\ inst' = [inst EXCEPT ![i] = r.o]
            /\ ret' = [NoCall EXCEPT !.op = "upsert", !.i = i, !.flag = TRUE,
                                     !.manager = "create", !.fields = r.fields]
            /\ UNCHANGED meta

\* instance.update(key=k)
Update ==
    \E i \in DOMAIN inst, k \in UpdateKeys :
        LET r == update(inst[i], meta, k)
        IN  /\ Step
            /\ inst' = [inst EXCEPT ![i] = r.o]
            /\ meta' = r.meta
            /\ ret' = [NoCall EXCEPT !.op = "update", !.i = i, !.arg = k,
                                     !.raised = r.raised,
                                     !.manager = IF r.called THEN "_update" ELSE "",
                                     !.fields = r.fields]

Next ==
    \/ SetAttr
    \/ SetId
    \/ PopulateFromDocDict
    \/ ToDict
    \/ ToDbDict
    \/ Save
    \/ Upsert
    \/ Update

Spec == Init /\ [][Next]_vars

SpecShared == InitShared /\ [][Next]_vars

SpecFromDict == InitFromDict /\ [][Next]_vars

\* ------------------------------------------- composing and parsing keys
\* parents (none, or a path of non-empty segments), collections and ids
PathParents ==
    {<<>>, <<"org">>, <<"org", "/", "acme">>,
     <<"org", "/", "acme", "/", "dept", "/", "d1">>}

PathCollections == {<<"user">>, <<"team">>, <<"c">>}

PathIds == {<<"u1">>, <<"u2">>, <<"i">>}

\* A = Model(parent=P, collection_name=C)
InitPath ==
    \E P \in PathParents, C \in PathCollections :
        LET kw == << <<"parent", P>>, <<"collection_name", C>> >>
        IN  /\ meta \in Metas
            /\ inst = [i \in {"A"} |-> Model(kw)]
            /\ ret = [NoCall EXCEPT !.op = "__init__", !.doc = kw]
            /\ ops = 0

\* A._id = I: the key is composed and fixed (_set_key)
FixKey ==
    \E I \in PathIds :
        /\ ops = 0 /\ ops' = 1
        /\ inst' = [inst EXCEPT !["A"] = _id_setter(@, meta, I)]
        /\ ret' = [NoCall EXCEPT !.op = "_id", !.i = "A", !.arg = I]
        /\ UNCHANGED meta

\* utils.get_id(k), k the instance's key or None
GetId ==
    \E k \in {key(inst["A"], meta), None} :
        /\ ops = 1 /\ ops' = 2
        /\ ret' = [NoCall EXCEPT !.op = "get_id", !.i = "A", !.arg = k,
                                 !.out = [id |-> get_id(k)]]
        /\ UNCHANGED <<meta, inst>>

\* utils.get_parent_doc(k), k the instance's key
GetParentDoc ==
    /\ ops = 1 /\ ops' = 2
    /\ ret' = [NoCall EXCEPT !.op = "get_parent_doc", !.i = "A",
                             !.arg = key(inst["A"], meta),
                             !.out = [parent |-> get_parent_doc(key(inst["A"], meta))]]
    /\ UNCHANGED <<meta, inst>>

NextPath == FixKey \/ GetId \/ GetParentDoc

SpecPath == InitPath /\ [][NextPath]_vars

\* ------------------------------------------------ remove_none_field
\* lists of at most n elements of S
ListsOf(S, n) == UNION {[1..k -> S] : k \in 0..n}

\* the items of the dicts with keys among a and b and values in S
ItemsOf(S) ==
    {<<>>} \cup {<< <<k, v>> >> : k \in {"a", "b"}, v \in S}
           \cup {<< <<"a", v>>, <<"b", w>> >> : v \in S, w \in S}

Scalars == {Null, PyInt(1)}

Flat ==
    Scalars \cup {PyDict(d) : d \in ItemsOf(Scalars)}
            \cup {PyList(e) : e \in ListsOf(Scalars, MaxListLen)}

Nested2 ==
    {PyDict(d) : d \in ItemsOf(Flat)}
    \cup {PyList(<<v>>) : v \in Flat} \cup {PyList(<<v, w>>) : v \in Flat, w \in Flat}

Nested3 ==
    {PyDict(<< <<"c", v>> >>) : v \in Nested2} \cup {PyList(<<v>>) : v \in Nested2}

\* {a: 1, b: None, c: {d: None, e: 2}} and what is left of it
Example ==
    PyDict(<< <<"a", PyInt(1)>>, <<"b", Null>>,
              <<"c", PyDict(<< <<"d", Null>>, <<"e", PyInt(2)>> >>)>> >>)

ExampleResult ==
    PyDict(<< <<"a", PyInt(1)>>, <<"c", PyDict(<< <<"e", PyInt(2)>> >>)>> >>)

Values == Flat \cup Nested2 \cup Nested3 \cup {Example}

\* values is about to be given to remove_none_field
InitRemoveNone ==
    /\ meta = [id |-> None, ignore_none_field |-> TRUE]
    /\ inst = [i \in {"A"} |-> Model(<<>>)]
    /\ \E values \in Values : ret = [NoCall EXCEPT !.out = values]
    /\ ops = 0

\* values = remove_none_field(values)
RemoveNoneField ==
    /\ ops < MaxApplications /\ ops' = ops + 1
    /\ ret' = [NoCall EXCEPT !.op = "remove_none_field", !.doc = ret.out,
                             !.out = remove_none_field(ret.out)]
    /\ UNCHANGED <<meta, inst>>

SpecRemoveNone == InitRemoveNone /\ [][RemoveNoneField]_vars

\* ================================================================ claims
Instances == DOMAIN inst

Named(log, f) == \E n \in 1..Len(log) : log[n] = f

IsPrefix(s, t) == Len(s) <= Len(t) /\ SubSeq(t, 1, Len(s)) = s

\* parent/collection/id written out: an empty parent is left out, and so is
\* the empty segment in front of a parent that begins with '/'
ExpectedKey(parent, collection, doc_id) ==
    IF parent = <<>> THEN collection \o <<"/">> \o doc_id
    ELSE IF parent[1] = "/"
        THEN Tail(parent) \o <<"/">> \o collection \o <<"/">> \o doc_id
    ELSE parent \o <<"/">> \o collection \o <<"/">> \o doc_id

\* the key an update is routed to: the update-doc key when there is one,
\* else the instance's own key
UpdateTarget(o, mt) == IF o._update_doc # None THEN o._update_doc ELSE key(o, mt)

\* C1: the persistence manager's update is never invoked for an instance
\* whose update target key (its update-doc key, or its own key when it has
\* none) contains the placeholder '@temp_doc_id'.
C1_NoUpdateViaPlaceholderKey ==
    ret.manager = "_update" => ~HasPlaceholder(UpdateTarget(inst[ret.i], meta))

\* C2: update() with no key on an instance with no update-doc key whose key
\* contains the placeholder raises InvalidKey, does not call the persistence
\* manager, and leaves parent, id, key and the changed-fields log unchanged.
C2_UpdateWithoutKeyRaises ==
    [][\A i \in Instances :
          (/\ ret'.op = "update" /\ ret'.i = i /\ ~Truthy(ret'.arg)
           /\ inst[i]._update_doc = None
           /\ HasPlaceholder(key(inst[i], meta)))
          => /\ ret'.raised = "InvalidKey"
             /\ ret'.manager = ""
             /\ inst'[i].parent = inst[i].parent
             /\ inst'[i].id = inst[i].id
             /\ inst'[i][IdFieldName] = inst[i][IdFieldName]
             /\ _id(inst'[i], meta') = _id(inst[i], meta)
             /\ inst'[i]._key = inst[i]._key
             /\ key(inst'[i], meta') = key(inst[i], meta)
             /\ inst'[i]._field_changed = inst[i]._field_changed]_vars

C2_Witness ==
    /\ ret.op = "update" /\ ret.arg = None /\ ret.raised = "InvalidKey"
    /\ inst[ret.i]._update_doc = None
    /\ inst[ret.i]._key = None
    /\ key(inst[ret.i], meta) = <<"user", "/", TempDocId>>
    /\ Len(inst[ret.i]._field_changed) > 1

\* C3: to_db_dict(changed_only=True) returns a dictionary that holds the
\* column of every assigned field (whose stored value is not null), no column
\* of a non-map field that was not assigned, and the column of every map
\* field whose current value is not null, assigned or not.
C3_ChangedOnlyKeepsMaps ==
    (ret.op = "to_db_dict" /\ ret.flag /\ ret.raised = "")
    => \A f \in FieldNames :
          LET o == inst[ret.i]
              col == db_column_name(f)
          IN  /\ (Named(o._field_changed, f) /\ o[f] # None)
                 => col \in DOMAIN ret.out
              /\ (~Named(o._field_changed, f) /\ f \notin MapFields)
                 => col \notin DOMAIN ret.out
              /\ (f \in MapFields /\ o[f] # None) => col \in DOMAIN ret.out

\* what a caller can observe of an instance
Observable(o, mt) == <<_id(o, mt), key(o, mt), o._field_changed, to_dict(o, mt)>>

\* C4: an operation on one instance leaves every other instance's resolved
\* id, key, changed-fields log and to_dict() result as they were.
C4_NoSharedState ==
    [][\A i, j \in Instances :
          (i # j /\ ret'.i = i)
          => Observable(inst'[j], meta') = Observable(inst[j], meta)]_vars

\* C5 as stated: with no id field declared on the model, a non-null bare id
\* attribute I and no fixed key, key is parent/collection/I and holds no
\* placeholder.
C5_BareIdResolvesKey ==
    \A i \in Instances :
        (meta.id = None /\ inst[i].id # None /\ ~Truthy(inst[i]._key))
        => /\ key(inst[i], meta)
              = ExpectedKey(inst[i].parent, inst[i].collection_name, inst[i].id)
           /\ ~HasPlaceholder(key(inst[i], meta))

\* C5 amended: the id used for key resolution is read through the id field
\* that _meta holds.  While _meta holds none, the resolved id is null whatever
\* the bare id attribute is, and the unfixed key ends in the placeholder; the
\* bare id attribute is read once _meta's id field is named id (update(key=K)
\* registers it), and a declared id field is read through its own attribute.
C5_IdReadThroughMetaIdField ==
    \A i \in Instances :
        LET o == inst[i]
            declared == o[IdFieldName]
        IN  (o.id # None /\ ~Truthy(o._key))
            => /\ meta.id = None
                  => /\ _id(o, meta) = None
                     /\ key(o, meta) = ExpectedKey(o.parent, o.collection_name,
                                                   Str(TempDocId))
               /\ meta.id = Str("id")
                  => /\ _id(o, meta) = o.id
                     /\ key(o, meta) = ExpectedKey(o.parent, o.collection_name, o.id)
               /\ meta.id = Str(IdFieldName)
                  => /\ _id(o, meta) = declared
                     /\ key(o, meta)
                        = ExpectedKey(o.parent, o.collection_name,
                                      IF declared = None THEN Str(TempDocId)
                                      ELSE declared)

C5_Witness ==
    \E i \in Instances :
        /\ ret.op = "setattr" /\ ret.i = i /\ ret.name = "id"
        /\ meta.id = None /\ inst[i].id = U1 /\ inst[i]._key = None
        /\ key(inst[i], meta) = <<"user", "/", TempDocId>>

\* C6: while no key is fixed, key is parent/collection_name/id with an empty
\* (leading) parent segment left out, the placeholder standing for an
\* unresolved id; '' , 'user', no id gives 'user/@temp_doc_id' and
\* 'org/acme', 'user', 'u1' gives 'org/acme/user/u1'.
C6_KeyIsParentCollectionId ==
    \A i \in Instances :
        LET o == inst[i]
            rid == _id(o, meta)
        IN  ~Truthy(o._key)
            => /\ key(o, meta)
                  = ExpectedKey(o.parent, o.collection_name,
                                IF rid = None THEN Str(TempDocId) ELSE rid)
               /\ (o.parent = <<>> /\ o.collection_name = <<"user">> /\ rid = None)
                  => key(o, meta) = <<"user", "/", "@temp_doc_id">>
               /\ (o.parent = <<"org", "/", "acme">>
                   /\ o.collection_name = <<"user">> /\ rid = <<"u1">>)
                  => key(o, meta) = <<"org", "/", "acme", "/", "user", "/", "u1">>

C6_Witness ==
    \E i \in Instances :
        /\ inst[i]._key = None
        /\ inst[i].parent = <<"org", "/", "acme">>
        /\ _id(inst[i], meta) = U1
        /\ key(inst[i], meta) = Key1

\* attributes whose assignment C7 names: parent, collection_name, the id
\* field's attribute and the declared fields
C7Attributes == {"parent", "collection_name", "id", IdFieldName} \cup FieldNames

\* C7: the id setter with a non-empty id fixes the key to parent/collection/id
\* as they are at that moment; a fixed key is what key returns after any
\* later assignment to parent, collection_name, the id attribute or a declared
\* field; the id setter with an empty or null id leaves the fixed key as it
\* was.
C7_IdSetterFixesKey ==
    [][\A i \in Instances :
          /\ (ret'.op = "_id" /\ ret'.i = i /\ Truthy(ret'.arg))
             => /\ inst'[i]._key
                   = ExpectedKey(inst[i].parent, inst[i].collection_name, ret'.arg)
                /\ key(inst'[i], meta') = inst'[i]._key
          /\ (ret'.op = "_id" /\ ret'.i = i /\ ~Truthy(ret'.arg))
             => inst'[i]._key = inst[i]._key
          /\ (ret'.op = "setattr" /\ ret'.i = i /\ ret'.name \in C7Attributes
              /\ Truthy(inst[i]._key))
             => /\ inst'[i]._key = inst[i]._key
                /\ key(inst'[i], meta') = inst[i]._key]_vars

C7_Witness ==
    \E i \in Instances :
        /\ ret.op = "setattr" /\ ret.i = i /\ ret.name = "parent"
        /\ inst[i].parent = <<"org", "/", "acme">>
        /\ inst[i]._key = <<"user", "/", "u1">>
        /\ key(inst[i], meta) = <<"user", "/", "u1">>

\* C8: neither the string key returns nor the key the id setter fixes ever
\* begins with the separator '/'.
C8_NoLeadingSeparator ==
    \A i \in Instances :
        /\ key(inst[i], meta)[1] # "/"
        /\ Truthy(inst[i]._key) => inst[i]._key[1] # "/"

\* C9: the changed-fields log only grows: across every operation the log
\* before is a prefix of the log after.
C9_LogOnlyGrows ==
    [][\A i \in Instances :
          IsPrefix(inst[i]._field_changed, inst'[i]._field_changed)]_vars

C9_Witness ==
    \E i \in Instances :
        /\ ret.op \in {"populate_from_doc_dict", "save", "upsert", "update"}
        /\ ret.i = i
        /\ Len(inst[i]._field_changed) >= 3

\* C10: an assignment to a declared field appends exactly that field's name
\* to the changed-fields log, whatever the value and whether or not it is the
\* current value; an assignment to any other attribute leaves the log as it
\* was.
C10_AssignmentAppendsOnce ==
    [][\A i \in Instances :
          (ret'.op = "setattr" /\ ret'.i = i)
          => IF ret'.name \in FieldNames
             THEN inst'[i]._field_changed
                  = Append(inst[i]._field_changed, ret'.name)
             ELSE inst'[i]._field_changed = inst[i]._field_changed]_vars

C10_Witness ==
    \E i \in Instances :
        /\ ret.op = "setattr" /\ ret.i = i /\ ret.name = "x"
        /\ ret.arg = <<"a">>
        /\ inst[i]._field_changed = <<"x", "n", "x", "x">>

\* the nested-model fields in registry order: what the constructor assigns
\* when called with no keyword arguments
ConstructorLog == SelectSeq(field_list, LAMBDA f : f \in NestedModelFields)

\* C11 as stated: immediately after from_dict(doc) or
\* populate_from_doc_dict(doc) the changed-fields log names no field.
C11_LogEmptyAfterHydration ==
    \A i \in Instances :
        (ret.op = "from_dict" \/ (ret.op = "populate_from_doc_dict" /\ ret.i = i))
        => inst[i]._field_changed = <<>>

\* C11 amended: the log records the declared fields assigned since creation,
\* the constructor's own assignments included, and hydration does not reset
\* it.  Immediately after from_dict(doc) the log names exactly the
\* nested-model fields the constructor instantiated, and immediately after
\* populate_from_doc_dict(doc) it is what it was before the call, fields
\* assigned before the hydration included.
C11_LogNotResetByHydration ==
    /\ ret.op = "from_dict"
       => \A i \in Instances : inst[i]._field_changed = ConstructorLog
    /\ [][\A i \in Instances :
             (ret'.op = "populate_from_doc_dict" /\ ret'.i = i)
             => /\ inst'[i]._field_changed = inst[i]._field_changed
                /\ IsPrefix(ConstructorLog, inst'[i]._field_changed)]_vars

C11_Witness ==
    /\ ret.op = "populate_from_doc_dict"
    /\ inst[ret.i]._field_changed = <<"n", "x">>
    /\ inst[ret.i].x = <<"b">>

\* the value a loaded document holds for field f: the stored value, or a
\* nested model instance for the storage dict of a nested-model field
Loaded(f, v) ==
    IF f \in NestedModelFields /\ v = FilledNestedDict THEN FilledNested
    ELSE IF f \in NestedModelFields /\ v = EmptyNestedDict THEN EmptyNested
    ELSE v

\* C12: populate_from_doc_dict(doc) leaves the changed-fields log exactly as
\* it was before the call, and every field whose column is a key of doc holds
\* the loaded value afterwards.
C12_HydrationBypassesLog ==
    [][\A i \in Instances :
          (ret'.op = "populate_from_doc_dict" /\ ret'.i = i)
          => /\ inst'[i]._field_changed = inst[i]._field_changed
             /\ \A n \in 1..Len(ret'.doc), f \in FieldNames :
                    db_column_name(f) = ret'.doc[n][1]
                    => inst'[i][f] = Loaded(f, ret'.doc[n][2])]_vars

C12_Witness ==
    /\ ret.op = "populate_from_doc_dict"
    /\ inst[ret.i]._field_changed = <<"x", "n">>
    /\ inst[ret.i].x = <<"b">>
    /\ inst[ret.i].m = MapValue

Columns == {db_column_name(f) : f \in FieldNames}

\* C13: when D = M.to_db_dict() holds every field's column (no field was
\* null-omitted), hydrating M itself or a fresh instance with D and calling
\* to_db_dict() again returns a dictionary equal to D, remapped columns
\* included.
C13_DbDictRoundTrip ==
    [][\A i \in Instances :
          (/\ ret.op = "to_db_dict" /\ ~ret.flag /\ ret.raised = "" /\ ret.i = i
           /\ DOMAIN ret.out = Columns
           /\ ret'.op = "populate_from_doc_dict" /\ ret'.i = i
           /\ ret'.doc = DictItems(ret.out))
          => /\ to_db_dict(inst'[i], meta', FALSE, FALSE, FALSE)
                = [raised |-> "", path |-> "", dict |-> ret.out]
             /\ to_db_dict(from_dict(ret'.doc), meta', FALSE, FALSE, FALSE)
                = [raised |-> "", path |-> "", dict |-> ret.out]]_vars

C13_Witness ==
    /\ ret.op = "populate_from_doc_dict"
    /\ ret.doc = << <<"x_col", <<"a">> >>, <<"m", MapValue>>,
                    <<"n", EmptyNestedDict>> >>
    /\ meta.ignore_none_field
    /\ to_db_dict(inst[ret.i], meta, FALSE, FALSE, FALSE).dict
       = [c \in Columns |-> IF c = "x_col" THEN <<"a">>
                             ELSE IF c = "m" THEN MapValue ELSE EmptyNestedDict]

\* the values kwargs gives for name f
GivenFor(kwargs, f) == {kwargs[n][2] : n \in {k \in 1..Len(kwargs) : kwargs[k][1] = f}}

LiveNested == {EmptyNested, FilledNested}

\* C14: after construction, whatever the keyword arguments, every declared
\* nested-model field holds a live nested model instance, never a raw
\* dictionary and never null: a fresh empty instance when the field is absent
\* from the keyword arguments, the instance its from_dict builds when it is
\* given as a raw mapping.
C14_NestedAlwaysLive ==
    ret.op = "__init__"
    => \A i \in Instances, f \in NestedModelFields :
          /\ inst[i][f] \in LiveNested
          /\ GivenFor(ret.doc, f) = {} => inst[i][f] = EmptyNested
          /\ \A v \in GivenFor(ret.doc, f) :
                 IsDict(v) => inst[i][f] = nested_from_dict(v)

\* the positions in the registry of the fields a to_db_dict call includes
\* and whose value no descriptor can coerce
Failing(o, changed_only) ==
    {k \in 1..Len(field_list) :
        /\ ~changed_only \/ Named(o._field_changed, field_list[k])
        /\ o[field_list[k]] = Bad}

\* C15: to_db_dict returns a complete dictionary or raises exactly one
\* wrapped serialization error.  When the coercion of some included field
\* fails the error's path names the first failing field in registry order and
\* no dictionary is returned; otherwise nothing is raised and the dictionary
\* holds the column of every included field with a value.  Either way the
\* instance's attributes and changed-fields log are unchanged.
C15_OneWrappedError ==
    [][\A i \in Instances :
          (ret'.op = "to_db_dict" /\ ret'.i = i)
          => /\ inst' = inst
             /\ LET F == Failing(inst[i], ret'.flag)
                IN  IF F = {}
                    THEN /\ ret'.raised = ""
                         /\ \A f \in FieldNames :
                                (/\ ~ret'.flag \/ Named(inst[i]._field_changed, f)
                                 /\ inst[i][f] # None \/ ~meta.ignore_none_field)
                                => db_column_name(f) \in DOMAIN ret'.out
                    ELSE /\ ret'.raised = "ModelSerializingWrappedError"
                         /\ ret'.path
                            = field_list[CHOOSE k \in F : \A j \in F : k <= j]
                         /\ ret'.out = EmptyDict]_vars

C15_Witness ==
    /\ ret.op = "to_db_dict" /\ ~ret.flag
    /\ ret.raised = "ModelSerializingWrappedError"
    /\ ret.path = "x"
    /\ inst[ret.i].x = Bad
    /\ inst[ret.i].m = Bad
    /\ ret.out = EmptyDict

\* doc without the keys that are no field's column
Matched(doc) == SelectSeq(doc, LAMBDA e : e[1] \in Columns)

Compose(parent, collection, doc_id) ==
    IF parent = <<>> THEN collection \o <<"/">> \o doc_id
    ELSE parent \o <<"/">> \o collection \o <<"/">> \o doc_id

\* K is parent, one more segment and doc_id, in this order
SplitsInto(K, parent, doc_id) ==
    /\ Len(doc_id) = 1 /\ doc_id[1] # "/"
    /\ \E n \in 1..Len(K) :
           K[n] # "/" /\ K = Compose(parent, <<K[n]>>, doc_id)

\* C17: when update calls the persistence manager for a non-placeholder
\* update-doc key K, given in the call or stored by an earlier one, the
\* instance's parent is K without its last two segments and its resolved id
\* is K's last segment.
C17_UpdateDerivesParentAndId ==
    \A i \in Instances :
        (/\ ret.op = "update" /\ ret.i = i /\ ret.manager = "_update"
         /\ inst[i]._update_doc # None
         /\ ~HasPlaceholder(inst[i]._update_doc))
        => /\ _id(inst[i], meta) # None
           /\ SplitsInto(inst[i]._update_doc, inst[i].parent, _id(inst[i], meta))

C17_Witness ==
    /\ ret.op = "update" /\ ret.arg = None /\ ret.manager = "_update"
    /\ inst[ret.i]._update_doc = Key1
    /\ inst[ret.i].parent = <<"org", "/", "acme">>
    /\ _id(inst[ret.i], meta) = U1
    /\ meta.id = Str("id")

\* the id an instance was given through the id setter
GivenId(o, mt) == IF mt.id = None THEN o.id ELSE o[mt.id[1]]

\* C18: for a parent P (empty, or a path of non-empty segments) and
\* non-empty slash-free C and I, the key K composed as P/C/I, an empty
\* parent left out, parses back: get_id(K) = I and get_parent_doc(K) = P;
\* get_id(None) is None.
C18_ParseInvertsCompose ==
    \A i \in Instances :
        /\ (ret.op = "get_id" /\ ret.arg = None) => ret.out.id = None
        /\ (ret.op = "get_id" /\ ret.arg # None)
           => /\ ret.arg = Compose(inst[i].parent, inst[i].collection_name,
                                   GivenId(inst[i], meta))
              /\ ret.out.id = GivenId(inst[i], meta)
        /\ ret.op = "get_parent_doc"
           => /\ ret.arg = Compose(inst[i].parent, inst[i].collection_name,
                                   GivenId(inst[i], meta))
              /\ ret.out.parent = inst[i].parent

C18_Witness ==
    /\ ret.op = "get_parent_doc"
    /\ ret.arg = <<"org", "/", "acme", "/", "dept", "/", "d1", "/", "team",
                   "/", "u2">>
    /\ ret.out.parent = <<"org", "/", "acme", "/", "dept", "/", "d1">>
    /\ GivenId(inst["A"], meta) = <<"u2">>

\* no mapping inside v, at any depth, has a key whose value is None
RECURSIVE NoNullKeys(_)
NoNullKeys(v) ==
    IF v.t = "dict"
    THEN \A n \in 1..Len(v.items) :
            v.items[n][2].t # "none" /\ NoNullKeys(v.items[n][2])
    ELSE IF v.t = "list" THEN \A n \in 1..Len(v.elems) : NoNullKeys(v.elems[n])
    ELSE TRUE

\* out is v with nothing but None-valued keys taken away: a mapping keeps
\* its other keys, in order, a list keeps its length, a scalar is itself
RECURSIVE Kept(_, _)
Kept(v, out) ==
    IF v.t = "dict"
    THEN LET left == SelectSeq(v.items, LAMBDA e : e[2].t # "none")
         IN  /\ out.t = "dict"
             /\ Len(out.items) = Len(left)
             /\ \A n \in 1..Len(left) :
                    /\ out.items[n][1] = left[n][1]
                    /\ Kept(left[n][2], out.items[n][2])
    ELSE IF v.t = "list"
    THEN /\ out.t = "list"
         /\ Len(out.elems) = Len(v.elems)
         /\ \A n \in 1..Len(v.elems) : Kept(v.elems[n], out.elems[n])
    ELSE out = v

\* C19: the result of remove_none_field has no None-valued key in any
\* mapping at any depth, mappings in lists and lists in mappings included,
\* and keeps every other entry at its path with its value;
\* {a: 1, b: None, c: {d: None, e: 2}} gives {a: 1, c: {e: 2}}; applying it
\* to its own result changes nothing.
C19_RemoveNoneField ==
    ret.op = "remove_none_field"
    => /\ NoNullKeys(ret.out)
       /\ Kept(ret.doc, ret.out)
       /\ ret.doc = Example => ret.out = ExampleResult
       /\ ops > 1 => ret.out = ret.doc

C19_Witness ==
    /\ ret.op = "remove_none_field"
    /\ ret.doc = PyDict(<< <<"c", PyList(<<PyDict(<< <<"a", Null>>,
                                                     <<"b", PyInt(1)>> >>),
                                           Null>>)>> >>)
    /\ ret.out = PyDict(<< <<"c", PyList(<<PyDict(<< <<"b", PyInt(1)>> >>),
                                           Null>>)>> >>)

\* C20: after update(key=K) has resolved a non-placeholder key K and called
\* the persistence manager, the instance's own key is K: the instance
\* addresses the document the update was routed to.
C20_KeyIsUpdateKey ==
    \A i \in Instances :
        (/\ ret.op = "update" /\ ret.i = i /\ ret.manager = "_update"
         /\ Truthy(ret.arg) /\ ~HasPlaceholder(ret.arg))
        => key(inst[i], meta) = ret.arg


====
